---- MODULE Spec2Model ----
(***************************************************************************)
(* A model of bluesky-crawlee: the two run() drivers (actor.py's           *)
(* BlueskyApiScraper and default.py's BlueskyCrawler), their session       *)
(* lifecycle, the search and user request handlers, and the crawling       *)
(* engine (crawlee's HttpCrawler) that schedules them.                     *)
(***************************************************************************)
EXTENDS Integers, Sequences, FiniteSets, TLC

\* ---------------------------------------------------------------- bounds
\* Most responses the servers deliver in one run of the model (retries
\* included); the fetches after them fail.
MaxFetch == 2
\* Retries the engine gives a request whose handler raised.
MaxRetries == 1
\* Handlers that may be suspended at an await at the same time.
MaxInFlight == 2
\* Largest finite max_requests_per_crawl tried.
MaxBudget == 2

\* ------------------------------------------------------------ value sets
\* Python's None, and a key that is absent from a JSON object.
None == "None"

Programs == {"actor", "default"}
\* actor.py takes the mode from its input (any string); default.py has no
\* mode and its handler does both things: it is given the mode "both".
Modes == {"posts", "users", "other"}
Queries == {"python", "apify", "crawlee"}
\* The `queries` inputs tried for actor.py: none, two, the same one twice.
QueryLists == {<<>>, <<"python", "apify">>, <<"python", "python">>}
\* default.py's fixed list.
DefaultQueries == <<"python", "apify", "crawlee">>
Dids == {"d1", "d2"}
\* Cursor values a server returns: a key that is absent, an empty string, or
\* a token.
CursorTokens == {"c1", "c2"}
Cursors == {None, ""} \cup CursorTokens

\* One entry of a search response's `posts` list.  uri stands for the keys
\* the post record reads besides the author (uri, cid, record.createdAt,
\* indexedAt, the counts, record.text); did is post['author']['did'].  None
\* is a missing key.
Entry(uri, did) == [uri |-> uri, did |-> did]
Uris == {"p1", "p2", "p3"}

\* The `posts` lists tried: empty; one post; three posts of two authors; a
\* good entry followed by one without author; one entry without uri.
PostLists ==
    { <<>>,
      <<Entry("p1", "d1")>>,
      <<Entry("p1", "d1"), Entry("p2", "d1"), Entry("p3", "d2")>>,
      <<Entry("p3", "d2"), Entry("p1", None)>>,
      <<Entry(None, "d1")>> }

\* The JSON body of a search response.
SearchResponses ==
    [kind : {"search"}, hasPosts : {TRUE}, posts : PostLists, cursor : Cursors]
    \cup [kind : {"search"}, hasPosts : {FALSE}, posts : {<<>>},
          cursor : {None, "c1"}]

\* The JSON body of a profile response: did, handle and the three counts
\* (req5), createdAt (created), the optional keys (opt).
ProfileResponses ==
    { [kind |-> "profile", req5 |-> TRUE, created |-> TRUE, opt |-> TRUE],
      [kind |-> "profile", req5 |-> TRUE, created |-> TRUE, opt |-> FALSE],
      [kind |-> "profile", req5 |-> TRUE, created |-> FALSE, opt |-> TRUE],
      [kind |-> "profile", req5 |-> FALSE, created |-> TRUE, opt |-> TRUE] }

\* ------------------------------------------------------------- requests
\* A request is its URL (path and query parameters) and its label.  A query
\* string may hold a parameter several times: cursor is the list of the
\* values of its `cursor` parameters.
SearchUrl(q) ==
    [label |-> "default", path |-> "app.bsky.feed.searchPosts",
     q |-> q, cursor |-> <<>>, actor |-> None]

ProfileUrl(d) ==
    [label |-> "user", path |-> "app.bsky.actor.getProfile",
     q |-> None, cursor |-> <<>>, actor |-> d]

\* yarl's URL.extend_query({'cursor': c}): the parameter is added after the
\* ones the URL already has.
UpdateQuery_Extend(url, c) == [url EXCEPT !.cursor = Append(@, c)]

\* yarl's URL.update_query({'cursor': c}): the parameter is set, replacing
\* every cursor the URL already has; the other parameters are kept.
UpdateQuery(url, c) == [url EXCEPT !.cursor = <<c>>]

\* The lists of cursor parameters a URL may come to hold.
CursorParams == UNION { [1..n -> CursorTokens] : n \in 0..MaxFetch }

AllRequests ==
    { [SearchUrl(q) EXCEPT !.cursor = cs] : q \in Queries, cs \in CursorParams }
    \cup { ProfileUrl(d) : d \in Dids }

\* --------------------------------------------------- the search handler
\* Python truthiness of data.get('cursor').
Truthy(v) == v # None /\ v # ""

\* actor.py tests self.mode; default.py does both.
CollectsUsers(p, m) == p = "default" \/ m = "users"
CollectsPosts_Always(p, m) == TRUE

CollectsPosts(p, m) == p = "default" \/ m = "posts"

\* Whether building the records of one entry raises KeyError.
EntryRaises(p, m, e) ==
    \/ CollectsUsers(p, m) /\ e.did = None
    \/ CollectsPosts(p, m) /\ (e.did = None \/ e.uri = None)

LoopRaises_FirstEntryOnly(p, m, posts) ==
    posts # <<>> /\ EntryRaises(p, m, posts[1])

LoopRaises(p, m, posts) == \E i \in DOMAIN posts : EntryRaises(p, m, posts[i])

\* user_requests: one request per author, in the order of first appearance.
RECURSIVE UserRequests_NoDedup(_)
UserRequests_NoDedup(posts) ==
    IF posts = <<>> THEN <<>>
    ELSE Append(UserRequests_NoDedup(SubSeq(posts, 1, Len(posts) - 1)),
                posts[Len(posts)].did)

UserRequests_FirstAuthorOnly(posts) ==
    IF posts = <<>> THEN <<>> ELSE <<posts[1].did>>

RECURSIVE UserRequests(_)
UserRequests(posts) ==
    IF posts = <<>> THEN <<>>
    ELSE LET init == UserRequests(SubSeq(posts, 1, Len(posts) - 1))
             d == posts[Len(posts)].did
         IN IF \E i \in DOMAIN init : init[i] = d THEN init ELSE Append(init, d)

\* posts: one record per entry, in order.
PostRecords_OnePerAuthor(posts) ==
    LET firsts == { i \in DOMAIN posts :
                      \A j \in 1..(i - 1) : posts[j].did # posts[i].did }
        F[n \in 0..Len(posts)] ==
            IF n = 0 THEN <<>>
            ELSE IF n \in firsts THEN Append(F[n - 1], posts[n].uri) ELSE F[n - 1]
    IN F[Len(posts)]

PostRecords_LastOnly(posts) ==
    IF posts = <<>> THEN <<>> ELSE <<posts[Len(posts)].uri>>

PostRecords(posts) == [i \in DOMAIN posts |-> posts[i].uri]

\* The early return of the handler: no `posts` key in the body.
MissingPosts_Raises(resp) == FALSE

MissingPosts(resp) == ~resp.hasPosts

\* The walrus test that guards the continuation request.
HasNext_NotInPostsMode(p, m, resp) == Truthy(resp.cursor) /\ ~CollectsPosts(p, m)

HasNext(p, m, resp) == Truthy(resp.cursor)

\* ----------------------------------------------------- the user handler
\* user_item reads did, createdAt, handle and the three counts with [], the
\* other keys with .get().
ProfileRaises_CreatedOptional(resp) == ~resp.req5

ProfileRaises(resp) == ~resp.req5 \/ ~resp.created

\* The record pushed: the optional keys are None when the body lacks them.
UserItem(d, resp) == [did |-> d, optional |-> IF resp.opt THEN "set" ELSE None]

\* ---------------------------------------------------------------- state
VARIABLES
    program,          \* which driver runs: actor.py's run or default.py's
    mode,             \* BlueskyApiScraper.mode
    max_request,      \* BlueskyApiScraper.max_request: <<>> is None, <<n>> is n
    queries,          \* the list given to crawl()
    pc,               \* where run() is
    exc,              \* the exception that leaves the try statement
    result,           \* how run() ended
    service_edpoint,  \* _service_edpoint / _domain
    user_did,         \* _user_did / _did
    access_token,     \* _access_token
    refresh_token,    \* _refresh_token
    handle,           \* _handle
    crawler,          \* _crawler
    known,            \* the engine's request queue: every unique key added
    queue,            \* requests waiting to be fetched
    inflight,         \* handler invocations suspended at an await
    retries,          \* per request, the retries used
    handled,          \* requests whose handler returned
    failed,           \* requests given up
    issued,           \* fetches started
    served,           \* responses delivered to a handler
    createOutcome,    \* what create_session did (history)
    createCalls,      \* calls of create_session (history)
    deleteCalls,      \* calls of delete_session (history)
    deleteOutcome,    \* what delete_session did (history)
    crawlEnd,         \* how the engine's run() ended (history)
    submitted,        \* per request, how often it was given to the engine
    pushedPosts,      \* per uri, the PostRecords pushed
    pushedUsers,      \* per did, the ProfileRecords pushed
    entriesHandled,   \* entries of the `posts` lists whose handler returned
    started,          \* per request, the fetches started for it (history)
    last              \* the handler invocation that ended last (history)

runVars == <<program, mode, max_request, queries, pc, exc, result>>
sessionVars == <<service_edpoint, user_did, access_token, refresh_token, handle>>
engineVars == <<known, queue, inflight, retries, handled, failed, issued, served>>
historyVars == <<createOutcome, createCalls, deleteCalls, deleteOutcome,
                 crawlEnd, submitted, pushedPosts, pushedUsers,
                 entriesHandled, started, last>>
vars == <<runVars, sessionVars, crawler, engineVars, historyVars>>

Budgets == {<<>>} \cup { <<n>> : n \in 1..MaxBudget }

Init ==
    /\ program \in Programs
    /\ mode \in (IF program = "actor" THEN Modes ELSE {"both"})
    /\ max_request \in (IF program = "actor" THEN Budgets ELSE {<<100>>})
    /\ queries \in (IF program = "actor" THEN QueryLists ELSE {DefaultQueries})
    /\ pc = "create_session"
    /\ exc = None
    /\ result = "running"
    /\ service_edpoint = None
    /\ user_did = None
    /\ access_token = None
    /\ refresh_token = None
    /\ handle = None
    /\ crawler = None
    /\ known = {}
    /\ queue = {}
    /\ inflight = {}
    /\ retries = [r \in AllRequests |-> 0]
    /\ handled = {}
    /\ failed = {}
    /\ issued = 0
    /\ served = 0
    /\ createOutcome = None
    /\ createCalls = 0
    /\ deleteCalls = 0
    /\ deleteOutcome = None
    /\ crawlEnd = None
    /\ submitted = [r \in AllRequests |-> 0]
    /\ pushedPosts = [u \in Uris |-> 0]
    /\ pushedUsers = [d \in Dids |-> 0]
    /\ entriesHandled = 0
    /\ started = [r \in AllRequests |-> 0]
    /\ last = [outcome |-> None]

\* ---------------------------------------------------------------- run()
\* What still propagates once the except clauses of run() have seen an
\* exception of this kind: actor.py re-raises httpx.HTTPError and swallows
\* the rest, default.py swallows everything.
ExceptClause(p, kind) == IF p = "actor" /\ kind = "http" THEN "http" ELSE None

\* Where run() goes when the try body ends, normally (None) or by an
\* exception: the finally clause.
AfterTry_NoFinally(kind) == IF kind = None THEN "delete_session" ELSE "done"

AfterTry(kind) == "delete_session"

\* How run() ends when `kind` propagates out of it.
Ends(kind) == IF kind = None THEN "returned" ELSE "raised_" \o kind

\* The try body ends with `kind`.
LeaveTry(kind) ==
    /\ pc' = AfterTry(kind)
    /\ exc' = ExceptClause(program, kind)
    /\ result' = IF AfterTry(kind) = "done"
                 THEN Ends(ExceptClause(program, kind)) ELSE result

\* The session fields after create_session assigned its first k of them.
SessionFields(k, did) ==
    [service_edpoint |-> IF k >= 1 THEN "pds" ELSE None,
     user_did |-> IF k >= 2 THEN did ELSE None,
     access_token |-> IF k >= 3 THEN "access" ELSE None,
     refresh_token |-> IF k >= 4 THEN "refresh" ELSE None,
     handle |-> IF k >= 5 THEN "handle" ELSE None]

\* create_session: the POST fails or answers a non-2xx status
\* ("http_error"), or the body lacks a key after k assignments ("bad_body"),
\* or all five fields are assigned ("ok"; the did may be the empty string).
\* actor.py calls it inside the try statement, default.py before it.
CreateSession(outcome, k, did) ==
    /\ pc = "create_session"
    /\ createCalls' = createCalls + 1
    /\ createOutcome' = outcome
    /\ LET f == SessionFields(IF outcome = "http_error" THEN 0
                              ELSE IF outcome = "ok" THEN 5 ELSE k, did)
           kind == IF outcome = "http_error" THEN "http"
                   ELSE IF outcome = "bad_body" THEN "other" ELSE None
       IN /\ service_edpoint' = f.service_edpoint
          /\ user_did' = f.user_did
          /\ access_token' = f.access_token
          /\ refresh_token' = f.refresh_token
          /\ handle' = f.handle
          /\ IF kind = None
             THEN pc' = "init_crawler" /\ UNCHANGED <<exc, result>>
             ELSE IF program = "actor"
             THEN LeaveTry(kind)
             ELSE pc' = "done" /\ exc' = kind /\ result' = Ends(kind)
    /\ UNCHANGED <<program, mode, max_request, queries, crawler, engineVars,
                   deleteCalls, deleteOutcome, crawlEnd, submitted,
                   pushedPosts, pushedUsers, entriesHandled, started, last>>

\* init_crawler's guard: `if not self._user_did: raise ValueError`.
NoSession_Unchecked == FALSE

NoSession == ~Truthy(user_did)

InitCrawler ==
    /\ pc = "init_crawler"
    /\ IF NoSession
       THEN LeaveTry("other") /\ UNCHANGED crawler
       ELSE pc' = "crawl" /\ crawler' = "HttpCrawler" /\ UNCHANGED <<exc, result>>
    /\ UNCHANGED <<program, mode, max_request, queries, sessionVars,
                   engineVars, historyVars>>

\* How often request r occurs in the list `adds`.
Occurrences(adds, r) == Cardinality({ i \in DOMAIN adds : adds[i] = r })

\* crawl: `if not self._crawler: raise ValueError`, else the engine is run
\* on one search URL per query.
Crawl ==
    /\ pc = "crawl"
    /\ IF crawler = None
       THEN LeaveTry("other") /\ UNCHANGED <<known, queue, submitted>>
       ELSE LET adds == [i \in DOMAIN queries |-> SearchUrl(queries[i])]
                addSet == { adds[i] : i \in DOMAIN adds }
            IN /\ pc' = "crawling"
               /\ known' = known \cup addSet
               /\ queue' = queue \cup (addSet \ known)
               /\ submitted' = [r \in AllRequests |->
                                  submitted[r] + Occurrences(adds, r)]
               /\ UNCHANGED <<exc, result>>
    /\ UNCHANGED <<program, mode, max_request, queries, sessionVars, crawler,
                   inflight, retries, handled, failed, issued, served,
                   createOutcome, createCalls, deleteCalls, deleteOutcome,
                   crawlEnd, pushedPosts, pushedUsers, entriesHandled,
                   started, last>>

\* What init_crawler gives the engine as max_requests_per_crawl: actor.py
\* its max_request (None is no limit), default.py 100.
MaxRequestsPerCrawl_NotPassed == <<>>

MaxRequestsPerCrawl == max_request

\* max_requests_per_crawl is reached.
BudgetReached ==
    MaxRequestsPerCrawl # <<>> /\ issued >= MaxRequestsPerCrawl[1]

\* The engine has nothing more to do: nothing is in flight, and nothing is
\* waiting or max_requests_per_crawl is reached.
CrawlOver_QueueOnly == inflight = {} /\ queue = {}

CrawlOver == inflight = {} /\ (queue = {} \/ BudgetReached)

\* The engine's run() returns: nothing is in flight and nothing more is to
\* be started.  default.py then saves the datasets inside the try body.
CrawlFinish ==
    /\ pc = "crawling"
    /\ CrawlOver
    /\ IF program = "default"
       THEN pc' = "save_data" /\ UNCHANGED <<exc, result>>
       ELSE LeaveTry(None)
    /\ crawlEnd' = "returned"
    /\ UNCHANGED <<program, mode, max_request, queries, sessionVars, crawler,
                   engineVars, createOutcome, createCalls, deleteCalls,
                   deleteOutcome, submitted, pushedPosts, pushedUsers,
                   entriesHandled, started, last>>

\* The engine's run() raises: the handlers in flight are cancelled and the
\* waiting requests are left unfetched.
CrawlRaises(kind) ==
    /\ pc = "crawling"
    /\ LeaveTry(kind)
    /\ inflight' = {}
    /\ queue' = {}
    /\ crawlEnd' = "raised"
    /\ UNCHANGED <<program, mode, max_request, queries, sessionVars, crawler,
                   known, retries, handled, failed, issued, served,
                   createOutcome, createCalls, deleteCalls, deleteOutcome,
                   submitted, pushedPosts, pushedUsers, entriesHandled,
                   started, last>>

\* default.py's save_data, which may raise (the files cannot be written).
SaveData(ok) ==
    /\ pc = "save_data"
    /\ LeaveTry(IF ok THEN None ELSE "other")
    /\ UNCHANGED <<program, mode, max_request, queries, sessionVars, crawler,
                   engineVars, historyVars>>

\* delete_session, called by the finally clause: the POST raises when there
\* is no endpoint to send it to or the server refuses (raise_for_status),
\* and the exception leaves run() in place of the one that was propagating.
DeleteRaises(serverOk) == service_edpoint = None \/ ~serverOk

DeleteSession(serverOk) ==
    /\ pc = "delete_session"
    /\ deleteCalls' = deleteCalls + 1
    /\ deleteOutcome' = IF DeleteRaises(serverOk) THEN "raised" ELSE "ok"
    /\ result' = IF DeleteRaises(serverOk) THEN Ends("http") ELSE Ends(exc)
    /\ pc' = "done"
    /\ UNCHANGED <<program, mode, max_request, queries, exc, sessionVars,
                   crawler, engineVars, createOutcome, createCalls, crawlEnd,
                   submitted, pushedPosts, pushedUsers, entriesHandled,
                   started, last>>

\* ----------------------------------------------------------- the engine
\* A handler invocation: the request, the response body, the await it is
\* suspended at, and what it has pushed and submitted so far.
NewContext(req, resp, step) ==
    [req |-> req, resp |-> resp, step |-> step,
     pushed |-> <<>>, usubs |-> <<>>, csubs |-> <<>>]

\* A request whose handler raised is tried again until its retries are used.
Requeued(req, fate) == fate = "raise" /\ retries[req] < MaxRetries

\* The waiting requests after a handler step: the request itself is out
\* (unless it is tried again), and the added requests are in, except those
\* whose unique key the queue already holds.
QueueAfter_RaiseDropsWaiting(req, addSet, fate) ==
    IF fate = "raise" THEN {}
    ELSE (queue \ {req}) \cup (addSet \ known)

QueueAfter_NoUniqueKey(req, addSet, fate) ==
    ((queue \ {req}) \cup addSet)
        \cup (IF Requeued(req, fate) THEN {req} ELSE {})

QueueAfter(req, addSet, fate) ==
    ((queue \ {req}) \cup (addSet \ known))
        \cup (IF Requeued(req, fate) THEN {req} ELSE {})

\* What the engine keeps of one step of a handler invocation.  `old` is the
\* invocation as it was suspended ({} when it starts), `new` as it is after
\* the step, `adds` the list the step gave to add_requests, `fate` whether
\* the handler is suspended again ("continue"), returned or raised.  The
\* request queue ignores a request whose unique key it already holds; a
\* request whose handler raised is tried again until its retries are used.
EngineStep(old, new, adds, fate) ==
    LET req == new.req
        addSet == { adds[i] : i \in DOMAIN adds }
        retry == Requeued(req, fate)
    IN /\ inflight' = (inflight \ old) \cup (IF fate = "continue" THEN {new} ELSE {})
       /\ last' = IF fate = "continue" THEN last
                  ELSE [outcome |-> fate, req |-> req, resp |-> new.resp,
                        step |-> new.step, pushed |-> new.pushed,
                        usubs |-> new.usubs, csubs |-> new.csubs]
       /\ known' = known \cup addSet
       /\ queue' = QueueAfter(req, addSet, fate)
       /\ retries' = IF retry THEN [retries EXCEPT ![req] = @ + 1] ELSE retries
       /\ handled' = IF fate = "return" THEN handled \cup {req} ELSE handled
       /\ failed' = IF fate = "raise" /\ ~retry THEN failed \cup {req} ELSE failed
       /\ submitted' = [r \in AllRequests |-> submitted[r] + Occurrences(adds, r)]
       /\ entriesHandled' =
              IF fate = "return" /\ req.label = "default"
              THEN entriesHandled + Len(new.resp.posts) ELSE entriesHandled

\* The engine may start a fetch: max_concurrency and max_requests_per_crawl
\* allow it.
MayFetch(req) ==
    /\ pc = "crawling"
    /\ req \in queue
    /\ Cardinality(inflight) < MaxInFlight
    /\ ~BudgetReached

\* A response arrives for req and its handler is called.
Serve(req) ==
    /\ MayFetch(req)
    /\ served < MaxFetch
    /\ issued' = issued + 1
    /\ served' = served + 1
    /\ started' = [started EXCEPT ![req] = @ + 1]

\* A fetch fails for good (timeout, HTTP error): no handler is called.
FetchFails(req) ==
    /\ MayFetch(req)
    /\ issued' = issued + 1
    /\ started' = [started EXCEPT ![req] = @ + 1]
    /\ queue' = queue \ {req}
    /\ failed' = failed \cup {req}
    /\ UNCHANGED <<runVars, sessionVars, crawler, known, inflight, retries,
                   handled, served, createOutcome, createCalls, deleteCalls,
                   deleteOutcome, crawlEnd, submitted, pushedPosts,
                   pushedUsers, entriesHandled, last>>

\* --------------------------------------------------------- _search_handler
\* The await the search handler reaches first.
FirstStep(p, m) == IF CollectsPosts(p, m) THEN "push" ELSE "users"

\* The handler once its push_data / add_requests call is over: it submits
\* the continuation when the body has a cursor, and returns otherwise.
AfterEmit(old, new, adds) ==
    IF HasNext(program, mode, new.resp)
    THEN EngineStep(old, [new EXCEPT !.step = "cursor"], adds, "continue")
    ELSE EngineStep(old, new, adds, "return")

\* A search response arrives and the handler runs up to its first await:
\* it returns when the body has no `posts`, raises KeyError when an entry
\* lacks a key it reads, and otherwise has built user_requests and posts.
SearchBegin(req, resp) ==
    /\ Serve(req)
    /\ req.label = "default"
    /\ IF MissingPosts(resp)
       THEN EngineStep({}, NewContext(req, resp, "early"), <<>>, "return")
       ELSE IF ~resp.hasPosts \/ LoopRaises(program, mode, resp.posts)
       THEN EngineStep({}, NewContext(req, resp, "loop"), <<>>, "raise")
       ELSE EngineStep({}, NewContext(req, resp, FirstStep(program, mode)),
                       <<>>, "continue")
    /\ UNCHANGED <<runVars, sessionVars, crawler, createOutcome, createCalls,
                   deleteCalls, deleteOutcome, crawlEnd, pushedPosts,
                   pushedUsers>>

\* `await context.push_data(posts)` (default.py: self._posts.push_data): the
\* sink takes the batch or raises.
SearchPush(c, sinkOk) ==
    /\ pc = "crawling"
    /\ c \in inflight
    /\ c.req.label = "default"
    /\ c.step = "push"
    /\ IF ~sinkOk
       THEN EngineStep({c}, c, <<>>, "raise") /\ UNCHANGED pushedPosts
       ELSE LET recs == PostRecords(c.resp.posts)
                new == [c EXCEPT !.pushed = recs]
            IN /\ pushedPosts' = [u \in Uris |->
                      pushedPosts[u] + Cardinality({ i \in DOMAIN recs : recs[i] = u })]
               /\ IF program = "default"
                  THEN EngineStep({c}, [new EXCEPT !.step = "users"], <<>>, "continue")
                  ELSE AfterEmit({c}, new, <<>>)
    /\ UNCHANGED <<runVars, sessionVars, crawler, issued, served, started,
                   createOutcome, createCalls, deleteCalls, deleteOutcome,
                   crawlEnd, pushedUsers>>

\* `await context.add_requests(list(user_requests.values()))`: the list is
\* empty when actor.py's mode is not 'users'.
SearchUsers(c) ==
    /\ pc = "crawling"
    /\ c \in inflight
    /\ c.step = "users"
    /\ LET dids == IF CollectsUsers(program, mode)
                   THEN UserRequests(c.resp.posts) ELSE <<>>
           adds == [i \in DOMAIN dids |-> ProfileUrl(dids[i])]
       IN AfterEmit({c}, [c EXCEPT !.usubs = adds], adds)
    /\ UNCHANGED <<runVars, sessionVars, crawler, issued, served, started,
                   createOutcome, createCalls, deleteCalls, deleteOutcome,
                   crawlEnd, pushedPosts, pushedUsers>>

\* next_url = URL(context.request.url).update_query({'cursor': cursor}).
NextUrl_GuessedCursor(url, cursor) == UpdateQuery(url, "c2")

NextUrl(url, cursor) == UpdateQuery(url, cursor)

\* `await context.add_requests([str(next_url)])`, and the handler returns.
SearchCursor(c) ==
    /\ pc = "crawling"
    /\ c \in inflight
    /\ c.step = "cursor"
    /\ LET adds == <<NextUrl(c.req, c.resp.cursor)>>
       IN EngineStep({c}, [c EXCEPT !.csubs = adds], adds, "return")
    /\ UNCHANGED <<runVars, sessionVars, crawler, issued, served, started,
                   createOutcome, createCalls, deleteCalls, deleteOutcome,
                   crawlEnd, pushedPosts, pushedUsers>>

\* ----------------------------------------------------------- _user_handler
\* A profile response arrives and user_item is built (or KeyError raised).
UserBegin(req, resp) ==
    /\ Serve(req)
    /\ req.label = "user"
    /\ IF ProfileRaises(resp)
       THEN EngineStep({}, NewContext(req, resp, "item"), <<>>, "raise")
       ELSE EngineStep({}, NewContext(req, resp, "push"), <<>>, "continue")
    /\ UNCHANGED <<runVars, sessionVars, crawler, createOutcome, createCalls,
                   deleteCalls, deleteOutcome, crawlEnd, pushedPosts,
                   pushedUsers>>

\* `await context.push_data(user_item)`, and the handler returns.
UserPush(c, sinkOk) ==
    /\ pc = "crawling"
    /\ c \in inflight
    /\ c.req.label = "user"
    /\ c.step = "push"
    /\ IF ~sinkOk
       THEN EngineStep({c}, c, <<>>, "raise") /\ UNCHANGED pushedUsers
       ELSE /\ pushedUsers' = [pushedUsers EXCEPT ![c.req.actor] = @ + 1]
            /\ EngineStep({c}, [c EXCEPT !.pushed = <<UserItem(c.req.actor, c.resp)>>],
                          <<>>, "return")
    /\ UNCHANGED <<runVars, sessionVars, crawler, issued, served, started,
                   createOutcome, createCalls, deleteCalls, deleteOutcome,
                   crawlEnd, pushedPosts>>

\* ------------------------------------------------------- specification
Next ==
    \/ \E o \in {"ok", "http_error", "bad_body"}, k \in 0..4, d \in {"", "did:me"} :
          CreateSession(o, k, d)
    \/ InitCrawler
    \/ Crawl
    \/ CrawlFinish
    \/ \E kind \in {"http", "other"} : CrawlRaises(kind)
    \/ \E ok \in BOOLEAN : SaveData(ok)
    \/ \E ok \in BOOLEAN : DeleteSession(ok)
    \/ \E req \in queue : FetchFails(req)
    \/ \E req \in queue, resp \in SearchResponses : SearchBegin(req, resp)
    \/ \E c \in inflight, ok \in BOOLEAN : SearchPush(c, ok)
    \/ \E c \in inflight : SearchUsers(c)
    \/ \E c \in inflight : SearchCursor(c)
    \/ \E req \in queue, resp \in ProfileResponses : UserBegin(req, resp)
    \/ \E c \in inflight, ok \in BOOLEAN : UserPush(c, ok)

Spec == Init /\ [][Next]_vars

\* The steps of a run in which the engine's run() does not raise: Next
\* without CrawlRaises (each disjunct under the guard its action starts
\* with).
Steady ==
    \/ pc = "create_session" /\
          \E o \in {"ok", "http_error", "bad_body"}, k \in 0..4, d \in {"", "did:me"} :
              CreateSession(o, k, d)
    \/ InitCrawler
    \/ Crawl
    \/ CrawlFinish
    \/ \E ok \in BOOLEAN : SaveData(ok)
    \/ \E ok \in BOOLEAN : DeleteSession(ok)
    \/ pc = "crawling" /\ \E req \in queue : FetchFails(req)
    \/ pc = "crawling" /\ \E c \in inflight, ok \in BOOLEAN : SearchPush(c, ok)
    \/ pc = "crawling" /\ \E c \in inflight : SearchUsers(c)
    \/ pc = "crawling" /\ \E c \in inflight : SearchCursor(c)
    \/ pc = "crawling" /\ \E c \in inflight, ok \in BOOLEAN : UserPush(c, ok)
    \/ pc = "crawling" /\ served < MaxFetch /\
          \E req \in queue, resp \in SearchResponses : SearchBegin(req, resp)
    \/ pc = "crawling" /\ served < MaxFetch /\
          \E req \in queue, resp \in ProfileResponses : UserBegin(req, resp)

\* Such runs under fairness: run() is driven by asyncio.run and the handlers
\* by the engine's event loop, every HTTP call answers or fails, so a run
\* that can take a step does not stand still for ever.
FairSpec == Init /\ [][Steady]_vars /\ WF_vars(Steady)

\* ---------------------------------------------------------------- claims
\* The states of the run in the specification's words.
Phase ==
    CASE pc = "create_session" -> "Unauthenticated"
      [] pc \in {"init_crawler", "crawl"} -> "SessionActive"
      [] pc = "crawling" -> "Crawling"
      [] pc \in {"save_data", "delete_session"} -> "Draining"
      [] OTHER -> "Closed"

PhaseRank(ph) ==
    CASE ph = "Unauthenticated" -> 0
      [] ph = "SessionActive" -> 1
      [] ph = "Crawling" -> 2
      [] ph = "Draining" -> 3
      [] OTHER -> 4

\* C1: in a run whose create_session succeeded, delete_session is called
\* exactly once, and only once crawling is over (nothing is in flight and
\* run() does nothing more): never twice, and never zero times when the run
\* has ended, whether the crawl returned or init_crawler / crawl raised.
C1_DeleteSessionExactlyOnce ==
    /\ deleteCalls <= 1
    /\ deleteCalls = 1 => pc = "done" /\ inflight = {}
    /\ createOutcome = "ok" /\ pc = "done" => deleteCalls = 1

\* C1's case: actor.py authenticated, fetched, the engine's run() raised an
\* HTTP error, and the session was deleted once on the way out.
C1_Witness ==
    /\ program = "actor" /\ createOutcome = "ok" /\ pc = "done"
    /\ issued > 0 /\ exc = "http" /\ deleteCalls = 1

\* C2: when the authentication call fails with a non-success status, no
\* search request is submitted and delete_session is never called.
C2_AuthFailureNoDelete ==
    createOutcome = "http_error" =>
        /\ deleteCalls = 0
        /\ \A r \in AllRequests : submitted[r] = 0

\* C3: a failure of delete_session (of an existing session) does not change
\* how run() ends: the run ends as the exception leaving the try statement
\* (or none) decides, as it would had the deletion succeeded.
C3_DeleteFailureNotPropagated ==
    pc = "done" /\ createOutcome = "ok" /\ deleteOutcome = "raised"
        => result = Ends(exc)

\* Whether a list holds no value twice.
NoDuplicates(seq) == \A i, j \in DOMAIN seq : seq[i] = seq[j] => i = j

\* The handler invocations the state records: those in flight and the one
\* that ended last.
Invocations == inflight \cup (IF last.outcome = None THEN {} ELSE {last})

SearchInvocations == { c \in Invocations : c.req.label = "default" }

C5_ContinuationPerCursorField ==
    last.outcome # None /\ last.req.label = "default" =>
        Len(last.csubs) = IF last.resp.cursor # None THEN 1 ELSE 0

\* C5, amended: a search response gets exactly one continuation request,
\* built from its request's URL and its cursor, when it has the `posts` key,
\* its handler returns without raising and its cursor is a non-empty
\* string, in every mode; any other search response gets none.
C5_ContinuationPerUsableCursor ==
    /\ \A c \in inflight : c.csubs = <<>>
    /\ last.outcome # None /\ last.req.label = "default" =>
          last.csubs = IF /\ last.outcome = "return"
                          /\ last.resp.hasPosts
                          /\ last.resp.cursor \in CursorTokens
                       THEN <<[last.req EXCEPT !.cursor = <<last.resp.cursor>>]>>
                       ELSE <<>>

\* C5's case: a Posts-mode page with a cursor was handled and its one
\* continuation request submitted.
C5_Witness ==
    /\ mode = "posts" /\ last.outcome = "return" /\ last.req.label = "default"
    /\ last.resp.cursor = "c1" /\ Len(last.csubs) = 1

\* C6: for a search response without the `posts` key the handler returns
\* without raising, pushes nothing and submits nothing; the request counts
\* as handled (it is neither retried nor failed).
C6_MissingPostsIsEmptyPage ==
    \A c \in SearchInvocations :
        ~c.resp.hasPosts =>
            /\ c = last
            /\ c.outcome = "return"
            /\ c.pushed = <<>> /\ c.usubs = <<>> /\ c.csubs = <<>>
            /\ c.req \in handled

\* C6's case: a body without `posts` (and with a cursor) was handled while
\* the crawl goes on with other requests waiting.
C6_Witness ==
    /\ last.outcome = "return" /\ last.req.label = "default"
    /\ ~last.resp.hasPosts /\ last.resp.cursor = "c1"
    /\ pc = "crawling" /\ queue # {}

\* How often uri u is among the entries of a `posts` list.
EntriesWithUri(posts, u) == Cardinality({ i \in DOMAIN posts : posts[i].uri = u })

\* How often record u is in a pushed batch.
PushedWithUri(batch, u) == Cardinality({ i \in DOMAIN batch : batch[i] = u })

\* The search invocations whose push_data call is over.
PastPush == { c \in SearchInvocations :
                 \/ c \in inflight /\ c.step \in {"users", "cursor"}
                                  /\ CollectsPosts(program, mode)
                 \/ c = last /\ c.outcome = "return" /\ c.resp.hasPosts
                             /\ CollectsPosts(program, mode) }

\* C7 as stated: in Posts mode a post is pushed at most once in the run.
C7_PostPushedOncePerRun ==
    mode = "posts" => \A u \in Uris : pushedPosts[u] <= 1

\* C7, amended: a post is pushed once for each of its appearances in the
\* `posts` list of a page whose push_data call succeeded: there is no
\* de-duplication by uri, within a page or across pages and queries.
C7_PostPushedOncePerAppearance ==
    /\ \A c \in PastPush : \A u \in Uris :
          PushedWithUri(c.pushed, u) = EntriesWithUri(c.resp.posts, u)
    /\ \A c \in SearchInvocations \ PastPush : c.pushed = <<>>

\* C7's case: in Posts mode the post p1 was on two handled pages and has
\* been pushed twice.
C7_Witness ==
    /\ mode = "posts" /\ pushedPosts["p1"] = 2
    /\ last.outcome = "return" /\ last.req.label = "default"
    /\ Len(last.resp.posts) = 1

\* A step in which a handler raised (in its loop, or at push_data): the
\* engine retries the request or gives it up.
HandlerRaised ==
    /\ last'.outcome = "raise"
    /\ retries' # retries \/ failed' # failed
    /\ ~(issued' # issued /\ served' = served)

\* C8: a handler that raises (an entry or a profile lacks a required key,
\* push_data fails) fails its own request only: run() goes on crawling with
\* no exception, the other requests in flight and waiting stay so, nothing
\* is pushed or submitted by the failed step, the request is retried or given
\* up, and a run in which a handler raised still deletes its session once.
C8_HandlerFailureIsolated ==
    /\ [][HandlerRaised =>
            /\ pc' = "crawling" /\ exc' = exc /\ result' = result
            /\ { c \in inflight : c.req # last'.req } \subseteq inflight'
            /\ (queue \ {last'.req}) \subseteq queue'
            /\ handled' = handled
            /\ pushedPosts' = pushedPosts /\ pushedUsers' = pushedUsers
            /\ submitted' = submitted
            /\ last'.req \in queue' \cup failed']_vars
    /\ [](pc = "done" /\ createOutcome = "ok" /\ (\E r \in AllRequests : retries[r] > 0)
            => deleteCalls = 1)

\* C8's case: a handler raised, afterwards the handler of another request
\* returned, and the run ended normally with its session deleted.
C8_Witness ==
    /\ pc = "done" /\ deleteCalls = 1 /\ exc = None
    /\ last.outcome = "return"
    /\ \E r \in AllRequests : r # last.req /\ retries[r] > 0

\* C9: create_session is called once, before anything else; a crawler
\* exists and requests are built or submitted only after it succeeded and
\* left a session (init_crawler raises otherwise, and crawl is not reached);
\* the run never moves back in Unauthenticated, SessionActive, Crawling,
\* Draining, Closed.
C9_SessionBeforeRequests ==
    /\ [](createCalls <= 1 /\ (pc # "create_session" => createCalls = 1))
    /\ []((\/ crawler # None
           \/ pc \in {"crawl", "crawling", "save_data"}
           \/ \E r \in AllRequests : submitted[r] > 0)
          => createOutcome = "ok" /\ Truthy(user_did))
    /\ [][PhaseRank(Phase') >= PhaseRank(Phase)]_vars

\* C9's case: a run that authenticated, crawled, handled a request, deleted
\* its session and is closed.
C9_Witness ==
    /\ Phase = "Closed" /\ createCalls = 1 /\ createOutcome = "ok"
    /\ handled # {} /\ deleteCalls = 1

TotalPushed == pushedPosts["p1"] + pushedPosts["p2"] + pushedPosts["p3"]

RECURSIVE PushedBy(_)
PushedBy(S) ==
    IF S = {} THEN 0
    ELSE LET c == CHOOSE x \in S : TRUE IN Len(c.pushed) + PushedBy(S \ {c})

\* C10: where posts are collected, the batch pushed for a search response
\* has as many records as the response's `posts` list has entries, and
\* while the crawl runs the records pushed so far are the entries of the
\* pages whose handler returned plus those of the pages in flight past
\* push_data; so N one-page queries of k posts each give N * k records.
C10_PushedEqualsEntries ==
    CollectsPosts(program, mode) =>
        /\ \A c \in PastPush : Len(c.pushed) = Len(c.resp.posts)
        /\ pc = "crawling" =>
              TotalPushed = entriesHandled + PushedBy(inflight \cap PastPush)

\* C10's case: Posts mode, the queries "python" and "apify", each answered
\* by one page of three posts without cursor: six records, no profile
\* request.
C10_Witness ==
    /\ program = "actor" /\ mode = "posts" /\ queries = <<"python", "apify">>
    /\ handled = {SearchUrl("python"), SearchUrl("apify")}
    /\ queue = {} /\ inflight = {} /\ served = 2
    /\ pushedPosts = [u \in Uris |-> 2]
    /\ TotalPushed = 6
    /\ \A d \in Dids : submitted[ProfileUrl(d)] = 0

\* The author identifiers among the entries of a `posts` list.
DistinctAuthors(posts) == { posts[i].did : i \in DOMAIN posts }

\* The search invocations whose add_requests call for the profile requests
\* is over.
PastUsers ==
    { c \in inflight : c.req.label = "default" /\ c.step = "cursor" }
    \cup (IF last.outcome = "return" /\ last.req.label = "default"
          THEN {last} ELSE {})

\* C11: where profiles are collected (Users mode; default.py always), the
\* profile requests the handler submits for one search response are one per
\* distinct author identifier among its posts, however many posts each
\* author has on the page.
C11_ProfileRequestsPerDistinctAuthor ==
    CollectsUsers(program, mode) =>
        \A c \in PastUsers :
            /\ Len(c.usubs) = Cardinality(DistinctAuthors(c.resp.posts))
            /\ { c.usubs[i] : i \in DOMAIN c.usubs }
                  = { ProfileUrl(d) : d \in DistinctAuthors(c.resp.posts) }

\* C11's case: in Users mode the handler of a page of three posts by two
\* authors is past its add_requests call and has submitted two profile
\* requests, one for each author.
C11_Witness ==
    /\ mode = "users"
    /\ \E c \in inflight :
          /\ c.step = "cursor" /\ Len(c.resp.posts) = 3
          /\ c.usubs = <<ProfileUrl("d1"), ProfileUrl("d2")>>
    /\ submitted[ProfileUrl("d1")] = 1 /\ submitted[ProfileUrl("d2")] = 1

\* C12: with a finite max_requests_per_crawl the fetches started in a run
\* never exceed it; no fetch is started once it is reached or when nothing
\* is waiting; while the crawl goes on no handler in flight is dropped (it
\* is still in flight or has ended, returned or raised); and the crawl ends
\* normally, and the session is deleted, only when nothing is in flight.
C12_BudgetBoundsFetches ==
    /\ [](max_request # <<>> => issued <= max_request[1])
    /\ [][issued' > issued =>
            /\ ~(max_request # <<>> /\ issued >= max_request[1])
            /\ queue # {}]_vars
    /\ [][pc = "crawling" /\ pc' = "crawling" =>
            \A c \in inflight :
                \/ \E c2 \in inflight' : c2.req = c.req
                \/ last'.outcome # None /\ last'.req = c.req]_vars
    /\ [][crawlEnd' = "returned" /\ crawlEnd # "returned" =>
            /\ inflight = {}
            /\ queue = {} \/ (max_request # <<>> /\ issued = max_request[1])]_vars
    /\ [](deleteCalls > 0 => inflight = {})

\* C12's case: a budget of two was used up by two fetches, both requests
\* were handled, the requests they added were left waiting unfetched, and
\* the run ended normally with its session deleted.
C12_Witness ==
    /\ program = "actor" /\ max_request = <<2>> /\ issued = 2
    /\ Cardinality(handled) = 2 /\ queue # {}
    /\ pc = "done" /\ crawlEnd = "returned" /\ deleteCalls = 1

\* C13: a run of actor.py whose mode is neither 'posts' nor 'users' never
\* crawls: no request is submitted and no record is pushed (the run fails
\* with a configuration error before crawling starts).
C13_InvalidModeFailsBeforeCrawl ==
    program = "actor" /\ mode \notin {"posts", "users"} =>
        /\ pc \notin {"crawl", "crawling"}
        /\ \A r \in AllRequests : submitted[r] = 0
        /\ TotalPushed = 0
        /\ \A d \in Dids : pushedUsers[d] = 0

\* C14 as stated: a profile response that has did, handle and the three
\* counts gets exactly one ProfileRecord pushed (its handler does not raise
\* while building the record); one that lacks any of them gets none and its
\* handler raises.
C14_RecordWhenFiveFieldsPresent ==
    last.outcome # None /\ last.req.label = "user" =>
        IF last.resp.req5
        THEN /\ last.step = "push"
             /\ last.outcome = "return" => Len(last.pushed) = 1
        ELSE last.outcome = "raise" /\ last.pushed = <<>>

\* C14, amended: createdAt is required as well.  A profile response that has
\* did, createdAt, handle and the three counts gets exactly one
\* ProfileRecord pushed when push_data succeeds, its optional fields None
\* where the response lacks them; a response that lacks a required field
\* gets none and its handler raises KeyError before push_data; a profile is
\* pushed once for each profile request handled.
C14_RecordWhenRequiredPresent ==
    /\ \A c \in inflight :
          c.req.label = "user" =>
              c.resp.req5 /\ c.resp.created /\ c.step = "push" /\ c.pushed = <<>>
    /\ last.outcome # None /\ last.req.label = "user" =>
          IF last.resp.req5 /\ last.resp.created
          THEN /\ last.step = "push"
               /\ last.outcome = "return" =>
                     last.pushed =
                         <<[did |-> last.req.actor,
                            optional |-> IF last.resp.opt THEN "set" ELSE None]>>
               /\ last.outcome = "raise" => last.pushed = <<>>
          ELSE last.outcome = "raise" /\ last.step = "item" /\ last.pushed = <<>>
    /\ \A d \in Dids :
          pushedUsers[d] = IF ProfileUrl(d) \in handled THEN 1 ELSE 0

\* C14's case: a profile response without the optional keys was handled and
\* its one record pushed with them None.
C14_Witness ==
    /\ last.outcome = "return" /\ last.req.label = "user"
    /\ ~last.resp.opt
    /\ last.pushed = <<[did |-> last.req.actor, optional |-> None]>>
    /\ pushedUsers[last.req.actor] = 1

\* C15: under fairness, and when the engine's run() does not raise, every
\* run ends; one whose create_session succeeded has then called
\* delete_session once, and one that crawled has left the crawl with
\* nothing in flight and nothing waiting or with max_requests_per_crawl
\* reached.  (Every page chain of the model is finite: the servers deliver
\* at most MaxFetch responses.)
C15_AuthenticatedRunCloses ==
    /\ <>(pc = "done")
    /\ [](pc = "done" /\ createOutcome = "ok" =>
            /\ deleteCalls = 1
            /\ crawlEnd # "raised"
            /\ crawlEnd = "returned" =>
                  /\ inflight = {}
                  /\ queue = {} \/ (max_request # <<>> /\ issued = max_request[1]))

\* C15's case: without a budget, the second page of a chain came without a
\* cursor, nothing was left waiting, the engine's run() returned, the
\* session was deleted and the run is closed.
C15_Witness ==
    /\ program = "actor" /\ max_request = <<>> /\ createOutcome = "ok"
    /\ last.outcome = "return" /\ last.req.label = "default"
    /\ last.req.cursor # <<>> /\ last.resp.cursor = None
    /\ queue = {} /\ crawlEnd = "returned"
    /\ pc = "done" /\ deleteCalls = 1

\* The search requests.
SearchRequests == { r \in AllRequests : r.label = "default" }

C17_ContinuationKeepsQueryOneCursor ==
    /\ \A c \in SearchInvocations :
          \A i \in DOMAIN c.csubs :
              /\ c.csubs[i].label = "default"
              /\ c.csubs[i].path = c.req.path
              /\ c.csubs[i].q = c.req.q
              /\ c.csubs[i].actor = None
              /\ c.csubs[i].cursor = <<c.resp.cursor>>
    /\ \A r \in known :
          r.label = "default" =>
              /\ \E i \in DOMAIN queries : r.q = queries[i]
              /\ Len(r.cursor) <= 1

\* C17's case: the page fetched with cursor=c1 for the query "apify" came
\* with the cursor c2, and the continuation submitted has q=apify and the
\* one cursor c2.
C17_Witness ==
    /\ last.outcome = "return" /\ last.req.label = "default"
    /\ last.req.q = "apify" /\ last.req.cursor = <<"c1">>
    /\ last.resp.cursor = "c2"
    /\ last.csubs = <<[SearchUrl("apify") EXCEPT !.cursor = <<"c2">>]>>

\* C18: in every state of a run of actor.py, in Posts mode no profile
\* request has been submitted and no ProfileRecord pushed, in Users mode no
\* PostRecord has been pushed (by a handler that ended or by one in
\* flight), and no step changes the mode.
C18_ModeExclusive ==
    /\ [](program = "actor" /\ mode = "posts" =>
            /\ \A d \in Dids : submitted[ProfileUrl(d)] = 0 /\ pushedUsers[d] = 0
            /\ \A c \in SearchInvocations : c.usubs = <<>>)
    /\ [](program = "actor" /\ mode = "users" =>
            /\ TotalPushed = 0
            /\ \A c \in SearchInvocations : c.pushed = <<>>)
    /\ [][mode' = mode]_vars

\* C18's case: a Users-mode run handled a search page of three posts and a
\* profile, pushed the ProfileRecord and no PostRecord.
C18_Witness ==
    /\ program = "actor" /\ mode = "users"
    /\ \E r \in handled : r.label = "default"
    /\ last.outcome = "return" /\ last.req.label = "user"
    /\ submitted[ProfileUrl("d1")] = 1 /\ submitted[ProfileUrl("d2")] = 1
    /\ pushedUsers[last.req.actor] = 1 /\ TotalPushed = 0

\* C19: a search request with a cursor is submitted only by the handler of
\* a request of the same query whose response has arrived and carries that
\* cursor, in the step in which that handler returns; so whenever a request
\* for a later page exists, the first page of its query has been handled.
\* Nothing orders the requests of different queries or the profile
\* requests.
C19_ContinuationAfterResponse ==
    /\ [][\A r \in SearchRequests :
              submitted'[r] > submitted[r] /\ r.cursor # <<>> =>
                  \E c \in inflight :
                      /\ c.req.label = "default" /\ c.step = "cursor"
                      /\ c.req.q = r.q /\ r.cursor = <<c.resp.cursor>>
                      /\ started[c.req] > 0 /\ c.req \notin queue
                      /\ c \notin inflight'
                      /\ last'.outcome = "return" /\ last'.req = c.req
                      /\ c.req \in handled']_vars
    /\ [](\A r \in known :
              r.label = "default" /\ r.cursor # <<>> => SearchUrl(r.q) \in handled)

\* C19's case: of the queries "python" and "apify" the second was answered
\* first: its first page is handled and its second page is waiting while
\* the handler of the first page of "python" is in flight.
C19_Witness ==
    /\ queries = <<"python", "apify">>
    /\ SearchUrl("apify") \in handled
    /\ [SearchUrl("apify") EXCEPT !.cursor = <<"c1">>] \in queue
    /\ SearchUrl("python") \notin handled
    /\ \E c \in inflight : c.req = SearchUrl("python")

\* Whether a `posts` list holds an entry whose records cannot be built.
HasBadEntry(posts) ==
    \E i \in DOMAIN posts : EntryRaises(program, mode, posts[i])

\* C20: a search page with an entry whose records cannot be built is never
\* handled in part: its handler raises in the loop, before any await, having
\* pushed no record and submitted no profile request and no continuation;
\* a handler that raises at push_data has pushed and submitted nothing
\* either; and a continuation request is submitted only by a handler whose
\* push_data call (where posts are collected) has taken every record of
\* the page and whose add_requests call (where profiles are collected) has
\* taken the profile requests of all its authors.
C20_PageAllOrNothing ==
    /\ \A c \in inflight :
          c.req.label = "default" => ~HasBadEntry(c.resp.posts)
    /\ last.outcome # None /\ last.req.label = "default" =>
          /\ HasBadEntry(last.resp.posts) =>
                last.outcome = "raise" /\ last.step = "loop"
          /\ last.outcome = "raise" =>
                last.pushed = <<>> /\ last.usubs = <<>> /\ last.csubs = <<>>
    /\ \A c \in SearchInvocations :
          (c.csubs # <<>> \/ (c \in inflight /\ c.step = "cursor")) =>
              /\ CollectsPosts(program, mode) =>
                    c.pushed = [i \in DOMAIN c.resp.posts |-> c.resp.posts[i].uri]
              /\ CollectsUsers(program, mode) =>
                    { c.usubs[i] : i \in DOMAIN c.usubs }
                        = { ProfileUrl(d) : d \in DistinctAuthors(c.resp.posts) }

\* C20's case: in Posts mode a page whose first entry is good and whose
\* second lacks the author came with a cursor: its handler raised in the
\* loop, no record was pushed, no continuation submitted, and the request
\* waits for its retry.
C20_Witness ==
    /\ program = "actor" /\ mode = "posts"
    /\ last.outcome = "raise" /\ last.step = "loop"
    /\ last.resp.posts = <<Entry("p3", "d2"), Entry("p1", None)>>
    /\ last.resp.cursor = "c1"
    /\ TotalPushed = 0
    /\ \A r \in SearchRequests : r.cursor # <<>> => submitted[r] = 0
    /\ last.req \in queue

====
